---- MODULE Spec2Model ----
(***************************************************************************)
(* Model of package spi (machbase/neo-spi), database.go: the Column model  *)
(* (Columns.Names, Columns.NamesWithTimeLocation, Columns.Types,           *)
(* Columns.MakeBuffer) together with the Go allocation semantics of new(T) *)
(* that MakeBuffer relies on.                                              *)
(*                                                                         *)
(* Strings that the code formats (column names, zone names) are sequences  *)
(* of one-character strings, so that fmt.Sprintf("%s(%s)", ...) is a real  *)
(* concatenation.  Type tags are only ever compared for equality by the    *)
(* code, so they are TLA+ strings.                                         *)
(*                                                                         *)
(* Columns is []*Column; the model ranges over sequences whose elements    *)
(* are non-nil pointers (a nil element is dereferenced by every method).   *)
(***************************************************************************)
EXTENDS Integers, Sequences, FiniteSets, TLC

\* ------------------------------------------------------------------ bounds

\* Longest Columns sequence explored.
MaxCols == 2

\* Most MakeBuffer calls in one behaviour.
MaxCalls == 2

\* ------------------------------------------------------- program constants

ColumnBufferTypeInt16 == "int16"
ColumnBufferTypeInt32 == "int32"
ColumnBufferTypeInt64 == "int64"
ColumnBufferTypeDatetime == "datetime"
ColumnBufferTypeFloat == "float"
ColumnBufferTypeDouble == "double"
ColumnBufferTypeIPv4 == "ipv4"
ColumnBufferTypeIPv6 == "ipv6"
ColumnBufferTypeString == "string"
ColumnBufferTypeBinary == "binary"
ColumnBufferTypeBoolean == "bool"
ColumnBufferTypeByte == "int8"

\* The twelve declared tags.
ColumnBufferTypes ==
    { ColumnBufferTypeInt16, ColumnBufferTypeInt32, ColumnBufferTypeInt64,
      ColumnBufferTypeDatetime, ColumnBufferTypeFloat, ColumnBufferTypeDouble,
      ColumnBufferTypeIPv4, ColumnBufferTypeIPv6, ColumnBufferTypeString,
      ColumnBufferTypeBinary, ColumnBufferTypeBoolean, ColumnBufferTypeByte }

\* ------------------------------------------------------------ input space

\* Column.Type is a plain Go string: tags outside the declared set are
\* representable, among them one that differs from a declared tag by case.
OtherTags == { "text", "DATETIME" }

TypeTags == ColumnBufferTypes \cup OtherTags

\* (Name, Size, Length) of the columns explored; they vary together.
ColumnShapes ==
    { [Name |-> <<"t", "s">>, Size |-> 8, Length |-> 0],
      [Name |-> <<"v">>, Size |-> 0, Length |-> 4] }

\* type Column struct { Name string; Type string; Size int; Length int }
Column ==
    { [Name |-> s.Name, Type |-> t, Size |-> s.Size, Length |-> s.Length] :
        s \in ColumnShapes, t \in TypeTags }

RECURSIVE SeqsUpTo(_, _)
SeqsUpTo(S, n) ==
    IF n = 0 THEN { <<>> }
    ELSE LET shorter == SeqsUpTo(S, n - 1)
         IN  shorter \cup { Append(q, x) : q \in { r \in shorter : Len(r) = n - 1 }, x \in S }

\* type Columns []*Column
Columns == SeqsUpTo(Column, MaxCols)

\* *time.Location values handed to NamesWithTimeLocation.  (*Location).String
\* returns the zone's name, and "UTC" for a nil receiver.
NilLocation == [isNil |-> TRUE, name |-> <<>>]

TimeLocations ==
    { NilLocation,
      [isNil |-> FALSE, name |-> <<"U", "T", "C">>],
      [isNil |-> FALSE, name |-> <<"K", "S", "T">>] }

LocationString(tz) == IF tz.isNil THEN <<"U", "T", "C">> ELSE tz.name

\* --------------------------------------------------------------- the heap

\* An `any` holding no value (the zero value of a []any element).
NilAny == [kind |-> "nil", addr |-> 0]

\* A variant of new that hands out the variable already allocated for the same
\* element type when there is one (a per-type cache).
NewCached(T, h) ==
    IF \E a \in 1..Len(h) : h[a].type = T
    THEN [ptr |-> [kind |-> T, addr |-> CHOOSE a \in 1..Len(h) : h[a].type = T],
          heap |-> h]
    ELSE [ptr |-> [kind |-> T, addr |-> Len(h) + 1],
          heap |-> Append(h, [type |-> T, val |-> 0])]

\* new(T): a pointer to a freshly allocated, zeroed variable of type T.  None of
\* the element types is zero-sized, so each allocation is a distinct variable.
New(T, h) ==
    [ptr |-> [kind |-> T, addr |-> Len(h) + 1],
     heap |-> Append(h, [type |-> T, val |-> 0])]

\* ----------------------------------------------------------- pure methods

\* A variant of Names that appends to the slice it has already sized:
\* names := make([]string, len(cols)); names = append(names, cols[i].Name)
NamesAppended(cols) ==
    [i \in 1..Len(cols) |-> <<>>] \o [i \in 1..Len(cols) |-> cols[i].Name]

\* func (cols Columns) Names() []string
Names(cols) == [i \in 1..Len(cols) |-> cols[i].Name]

\* fmt.Sprintf("%s(%s)", name, zone)
Sprintf(name, zone) == name \o <<"(">> \o zone \o <<")">>

\* A variant of NamesWithTimeLocation that matches the tag without regard to
\* case (strings.EqualFold(cols[i].Type, "datetime")).
NamesWithTimeLocationFold(cols, tz) ==
    [i \in 1..Len(cols) |->
        IF cols[i].Type \in {"datetime", "DATETIME"}
        THEN Sprintf(cols[i].Name, LocationString(tz))
        ELSE cols[i].Name]

\* func (cols Columns) NamesWithTimeLocation(tz *time.Location) []string
NamesWithTimeLocation(cols, tz) ==
    [i \in 1..Len(cols) |->
        IF cols[i].Type = "datetime"
        THEN Sprintf(cols[i].Name, LocationString(tz))
        ELSE cols[i].Name]

\* A variant of Types that copies the wrong field: types[i] = cols[i].Name
TypesCopiesName(cols) == [i \in 1..Len(cols) |-> cols[i].Name]

\* func (cols Columns) Types() []string
Types(cols) == [i \in 1..Len(cols) |-> cols[i].Type]

\* A variant of the switch whose "int8" case allocates a signed int8.
SwitchTypeSignedByte(tag) ==
    CASE tag = "int16" -> "int16"
      [] tag = "int32" -> "int32"
      [] tag = "int64" -> "int64"
      [] tag = "datetime" -> "time.Time"
      [] tag = "float" -> "float32"
      [] tag = "double" -> "float64"
      [] tag = "ipv4" -> "net.IP"
      [] tag = "ipv6" -> "net.IP"
      [] tag = "string" -> "string"
      [] tag = "binary" -> "[]byte"
      [] tag = "bool" -> "bool"
      [] tag = "int8" -> "int8"
      [] OTHER -> ""

\* The switch of MakeBuffer: the element type allocated for a tag, "" when no
\* case matches (the switch has no default).
SwitchType(tag) ==
    CASE tag = "int16" -> "int16"
      [] tag = "int32" -> "int32"
      [] tag = "int64" -> "int64"
      [] tag = "datetime" -> "time.Time"
      [] tag = "float" -> "float32"
      [] tag = "double" -> "float64"
      [] tag = "ipv4" -> "net.IP"
      [] tag = "ipv6" -> "net.IP"
      [] tag = "string" -> "string"
      [] tag = "binary" -> "[]byte"
      [] tag = "bool" -> "bool"
      [] tag = "int8" -> "uint8"
      [] OTHER -> ""

\* rec := make([]any, len(cols))
MakeRec(cols) == [i \in 1..Len(cols) |-> NilAny]

\* for i := range cols { switch cols[i].Type { case ...: rec[i] = new(T) } }
RECURSIVE MakeBufferLoop(_, _, _, _)
MakeBufferLoop(cols, i, rec, h) ==
    IF i > Len(cols) THEN [rec |-> rec, heap |-> h]
    ELSE LET T == SwitchType(cols[i].Type)
         IN  IF T = "" THEN MakeBufferLoop(cols, i + 1, rec, h)
             ELSE LET n == New(T, h)
                  IN  MakeBufferLoop(cols, i + 1, [rec EXCEPT ![i] = n.ptr], n.heap)

\* A variant of the loop that returns as soon as a tag matches no case
\* (default: return rec).
RECURSIVE MakeBufferLoopReturns(_, _, _, _)
MakeBufferLoopReturns(cols, i, rec, h) ==
    IF i > Len(cols) THEN [rec |-> rec, heap |-> h]
    ELSE LET T == SwitchType(cols[i].Type)
         IN  IF T = "" THEN [rec |-> rec, heap |-> h]
             ELSE LET n == New(T, h)
                  IN  MakeBufferLoopReturns(cols, i + 1, [rec EXCEPT ![i] = n.ptr], n.heap)

MakeBufferReturnsAtUnknown(cols, h) == MakeBufferLoopReturns(cols, 1, MakeRec(cols), h)

\* func (cols Columns) MakeBuffer() []any, run on heap h
MakeBuffer(cols, h) == MakeBufferLoop(cols, 1, MakeRec(cols), h)

\* ------------------------------------------------------------------ state

VARIABLES
    cols,   \* the Columns value the methods are called on
    ret,    \* the last call and what it returned
    bufs,   \* every buffer MakeBuffer has returned, oldest first
    heap    \* the variables allocated by new, by address

vars == <<cols, ret, bufs, heap>>

NoCall == [op |-> "none", tz |-> NilLocation, val |-> <<>>]

Init ==
    /\ cols \in Columns
    /\ ret = NoCall
    /\ bufs = <<>>
    /\ heap = <<>>

NamesCall ==
    /\ ret' = [op |-> "Names", tz |-> NilLocation, val |-> Names(cols)]
    /\ UNCHANGED <<cols, bufs, heap>>

NamesWithTimeLocationCall ==
    \E tz \in TimeLocations :
        /\ ret' = [op |-> "NamesWithTimeLocation", tz |-> tz,
                   val |-> NamesWithTimeLocation(cols, tz)]
        /\ UNCHANGED <<cols, bufs, heap>>

TypesCall ==
    /\ ret' = [op |-> "Types", tz |-> NilLocation, val |-> Types(cols)]
    /\ UNCHANGED <<cols, bufs, heap>>

MakeBufferCall ==
    /\ Len(bufs) < MaxCalls
    /\ LET r == MakeBuffer(cols, heap)
       IN  /\ ret' = [op |-> "MakeBuffer", tz |-> NilLocation, val |-> r.rec]
           /\ bufs' = Append(bufs, r.rec)
           /\ heap' = r.heap
    /\ UNCHANGED cols

Next ==
    \/ NamesCall
    \/ NamesWithTimeLocationCall
    \/ TypesCall
    \/ MakeBufferCall

Spec == Init /\ [][Next]_vars

\* ------------------------------------------------- use of returned buffers

\* The values a scan target is made to hold (0 is the zero value new leaves).
ScanValues == { 0, 1 }

\* The columns of the allocation study: two tags with their own element type,
\* the two tags that share net.IP, and a tag outside the declared set.
AllocTags == { "int32", "string", "ipv4", "ipv6", "text" }

AllocColumn ==
    { [Name |-> <<"v">>, Type |-> t, Size |-> 0, Length |-> 0] : t \in AllocTags }

InitAlloc ==
    /\ cols \in SeqsUpTo(AllocColumn, MaxCols)
    /\ ret = NoCall
    /\ bufs = <<>>
    /\ heap = <<>>

\* The non-nil slots handed out so far: <<b, i>> is slot i of the b-th buffer.
Slots == { s \in (1..Len(bufs)) \X (1..Len(cols)) : bufs[s[1]][s[2]] # NilAny }

SlotAddr(s) == bufs[s[1]][s[2]].addr

\* The value a reader sees through slot s of heap h: *rec[i]
Deref(h, s) == h[SlotAddr(s)].val

\* A Scan implementation assigning through one slot of a buffer: *rec[i] = v
ScanStore ==
    \E s \in Slots, v \in ScanValues :
        /\ heap' = [heap EXCEPT ![SlotAddr(s)].val = v]
        /\ UNCHANGED <<cols, ret, bufs>>

NextAlloc ==
    \/ MakeBufferCall
    \/ ScanStore

SpecAlloc == InitAlloc /\ [][NextAlloc]_vars

\* ----------------------------------------------------------------- claims

\* The storage kind the column model documents for each declared tag.
MappedKind ==
    [t \in ColumnBufferTypes |->
        CASE t = "int16" -> "int16"
          [] t = "int32" -> "int32"
          [] t = "int64" -> "int64"
          [] t = "int8" -> "uint8"
          [] t = "float" -> "float32"
          [] t = "double" -> "float64"
          [] t = "datetime" -> "time.Time"
          [] t \in {"ipv4", "ipv6"} -> "net.IP"
          [] t = "string" -> "string"
          [] t = "binary" -> "[]byte"
          [] t = "bool" -> "bool"]

\* Slot x is a non-nil pointer to a live variable of element type k.
PointsTo(x, k) ==
    /\ x # NilAny
    /\ x.kind = k
    /\ x.addr \in 1..Len(heap)
    /\ heap[x.addr].type = k

Returned(op) == ret.op = op

\* C1: after MakeBuffer, every column whose Type is one of the twelve declared
\* tags has a non-nil slot of exactly the mapped storage kind.
C1_DeclaredTagsGetMappedSlot ==
    Returned("MakeBuffer") =>
        \A i \in 1..Len(cols) :
            cols[i].Type \in ColumnBufferTypes =>
                /\ i \in DOMAIN ret.val
                /\ PointsTo(ret.val[i], MappedKind[cols[i].Type])

\* C1 witness: MakeBuffer has returned for an int8 column and an ipv6 column.
C1_Witness ==
    /\ Returned("MakeBuffer")
    /\ Len(cols) = 2
    /\ cols[1].Type = "int8" /\ cols[2].Type = "ipv6"
    /\ ret.val[1].kind = "uint8" /\ ret.val[2].kind = "net.IP"

\* C2: whatever Names, Types or MakeBuffer returns has exactly len(cols)
\* entries, the empty sequence and unsupported tags included.
C2_LengthsEqualLenCols ==
    (Returned("Names") \/ Returned("Types") \/ Returned("MakeBuffer")) =>
        /\ Len(ret.val) = Len(cols)
        /\ DOMAIN ret.val = 1..Len(cols)

\* C2 witness: Names has returned two names for two columns, one of them with
\* an unsupported tag.
C2_Witness ==
    /\ Returned("Names")
    /\ Len(cols) = 2
    /\ cols[1].Type \in OtherTags
    /\ Len(ret.val) = 2

\* C3: NamesWithTimeLocation(tz)[i] is "<name>(<zone>)" exactly when cols[i].Type
\* is "datetime" and the bare name for every other column; the result has
\* len(cols) entries.
C3_OnlyDatetimeAnnotated ==
    Returned("NamesWithTimeLocation") =>
        /\ Len(ret.val) = Len(cols)
        /\ \A i \in 1..Len(cols) :
            LET annotated == cols[i].Name \o <<"(">> \o LocationString(ret.tz) \o <<")">>
            IN  /\ (ret.val[i] = annotated) <=> (cols[i].Type = "datetime")
                /\ cols[i].Type # "datetime" => ret.val[i] = cols[i].Name

\* C3 witness: a datetime column rendered as "ts(KST)" next to a column whose tag
\* is "DATETIME", rendered bare.
C3_Witness ==
    /\ Returned("NamesWithTimeLocation")
    /\ Len(cols) = 2
    /\ cols[1].Type = "datetime" /\ cols[2].Type = "DATETIME"
    /\ ret.val[1] = <<"t", "s", "(", "K", "S", "T", ")">>
    /\ ret.val[2] = cols[2].Name

\* C4: MakeBuffer can be called on every Columns value, also when a tag is
\* outside the declared set; the slot of such a column is nil, and every column
\* with a declared tag still has its mapped non-nil slot.
C4_UnknownTagLeavesNilSlot ==
    /\ Returned("none") => ENABLED MakeBufferCall
    /\ Returned("MakeBuffer") =>
        /\ Len(ret.val) = Len(cols)
        /\ \A i \in 1..Len(cols) :
            IF cols[i].Type \in ColumnBufferTypes
            THEN PointsTo(ret.val[i], MappedKind[cols[i].Type])
            ELSE ret.val[i] = NilAny

\* C4 witness: MakeBuffer has returned for an unsupported tag followed by a
\* declared one.
C4_Witness ==
    /\ Returned("MakeBuffer")
    /\ Len(cols) = 2
    /\ cols[1].Type = "text" /\ cols[2].Type = "double"
    /\ ret.val[1] = NilAny
    /\ ret.val[2].kind = "float64"

\* The kind of the slot MakeBuffer gives a lone column of the given tag with
\* an empty name and zero Size and Length, on an empty heap.
KindAlone(tag) ==
    MakeBuffer(<<[Name |-> <<>>, Type |-> tag, Size |-> 0, Length |-> 0]>>, <<>>).rec[1].kind

\* C9: the derived views are position-wise: Names()[i] is cols[i].Name,
\* Types()[i] is cols[i].Type, and the kind of MakeBuffer()[i] is the kind given
\* to cols[i].Type alone, whatever the name, size, length, position and
\* neighbours of the column and whatever was allocated before.
C9_ViewsArePositionWise ==
    /\ Returned("Names") => \A i \in 1..Len(cols) : ret.val[i] = cols[i].Name
    /\ Returned("Types") => \A i \in 1..Len(cols) : ret.val[i] = cols[i].Type
    /\ \A b \in 1..Len(bufs) : \A i \in 1..Len(cols) :
            bufs[b][i].kind = KindAlone(cols[i].Type)

\* C9 witness: Types has returned for two columns of different tags and names.
C9_Witness ==
    /\ Returned("Types")
    /\ Len(cols) = 2
    /\ cols[1].Type # cols[2].Type /\ cols[1].Name # cols[2].Name
    /\ Len(bufs) >= 1
    /\ ret.val = <<cols[1].Type, cols[2].Type>>

\* No two non-nil slots, of one buffer or of two, hold the same address.
DistinctCells == \A s, t \in Slots : s # t => SlotAddr(s) # SlotAddr(t)

\* A step that leaves the buffers alone changes the value read through at most
\* one slot.
StoreChangesOneSlot ==
    bufs' = bufs =>
        Cardinality({ s \in Slots : Deref(heap', s) # Deref(heap, s) }) <= 1

\* C10: every MakeBuffer call allocates fresh storage: all non-nil slots of all
\* buffers returned so far are pairwise distinct cells, so a store through one
\* slot changes the value read through no other slot.
C10_FreshStorage == []DistinctCells /\ [][StoreChangesOneSlot]_vars

\* C10 witness: two buffers of two same-tag columns, after a store through the
\* first slot of the first buffer only.
C10_Witness ==
    /\ Len(bufs) = 2
    /\ Len(cols) = 2
    /\ cols[1].Type = "int32" /\ cols[2].Type = "int32"
    /\ Deref(heap, <<1, 1>>) = 1
    /\ Deref(heap, <<1, 2>>) = 0
    /\ Deref(heap, <<2, 1>>) = 0
    /\ Deref(heap, <<2, 2>>) = 0

====
